---------------------------- MODULE Spec2Model ----------------------------
(***************************************************************************)
(* A model of the blackjack rules engine of RL-Blackjack:                  *)
(*   deck.py / blackjack_deck.py  the shoe and the card point values       *)
(*   hand.py                      hand totals with ace flexibility         *)
(*   dealer.py                    the dealer's policy                      *)
(*   player.py                    bankroll, betting, bankruptcy            *)
(*   game.py                      the round loop, outcome and payout       *)
(*                                                                         *)
(* A card is modelled by its rank (Card.value): the suit takes no part in  *)
(* any computation of the engine.  The shoe is shuffled, so a draw yields  *)
(* a card of any rank; the model keeps the number of cards of the shoe and *)
(* of the discard pile.                                                    *)
(*                                                                         *)
(* The specifications share the variables:                                 *)
(*   Spec      the game loop of Game.launch_game                           *)
(*   SpecHand  a Hand built by its constructor and grown by add_card       *)
(*   SpecBet   a Player placing bets through bet_to_pot                    *)
(*   SpecDraw  a Deck drawn from through draw_card                         *)
(*   SpecLate  the game loop picked up when the shoe is nearly dealt out   *)
(*   SpecFunds the game loop picked up with bankrolls of every kind        *)
(*   SpecCalls reset_round and reveal_hole_card called out of the loop     *)
(*   SpecShoe  the construction of a BlackjackDeck                         *)
(*   SpecObj   the constructors, the value lookup and the stored totals    *)
(*   SpecFair  SpecFunds with every step of the loop eventually taken      *)
(*   SpecAsk   one player at the prompt of get_player_bet                  *)
(***************************************************************************)
EXTENDS Integers, Sequences, FiniteSets

\* ------------------------------------------------------------------------
\* Bounds of the model
\* ------------------------------------------------------------------------

\* the longest hand SpecHand builds
MaxCards == 4

\* ------------------------------------------------------------------------
\* deck.py / blackjack_deck.py : cards
\* ------------------------------------------------------------------------

\* Deck.VALUES, in the order of the source
VALUES ==
  << "2", "3", "4", "5", "6", "7", "8", "9", "10",
     "Jack", "Queen", "King", "Ace" >>

Ranks == { VALUES[i] : i \in DOMAIN VALUES }

\* int(card.value) for the number cards
IntOf(r) ==
  CASE r = "2" -> 2 [] r = "3" -> 3 [] r = "4" -> 4 [] r = "5" -> 5
    [] r = "6" -> 6 [] r = "7" -> 7 [] r = "8" -> 8 [] r = "9" -> 9
    [] r = "10" -> 10

\* a lookup that counts every card that is no number and no ace as 10
blackjack_value_lenient(r) ==
  IF r \in {"2", "3", "4", "5", "6", "7", "8", "9", "10"}
    THEN [kind |-> "int", v |-> IntOf(r)]
  ELSE IF r = "Ace"
    THEN [kind |-> "list", v |-> <<1, 11>>]
  ELSE [kind |-> "int", v |-> 10]

\* BlackjackDeck.blackjack_value: an int, the list [1, 11], or an error
blackjack_value(r) ==
  IF r \in {"2", "3", "4", "5", "6", "7", "8", "9", "10"}
    THEN [kind |-> "int", v |-> IntOf(r)]
  ELSE IF r \in {"Jack", "Queen", "King"}
    THEN [kind |-> "int", v |-> 10]
  ELSE IF r = "Ace"
    THEN [kind |-> "list", v |-> <<1, 11>>]
  ELSE [kind |-> "ValueError"]

\* ------------------------------------------------------------------------
\* Python list helpers
\* ------------------------------------------------------------------------

RECURSIVE SeqMax(_)
SeqMax(s) ==
  IF Len(s) = 1 THEN s[1]
  ELSE LET m == SeqMax(Tail(s)) IN IF s[1] >= m THEN s[1] ELSE m

RECURSIVE SeqMin(_)
SeqMin(s) ==
  IF Len(s) = 1 THEN s[1]
  ELSE LET m == SeqMin(Tail(s)) IN IF s[1] <= m THEN s[1] ELSE m

\* value in list
In(x, s) == \E i \in DOMAIN s : s[i] = x

\* [value for value in hand_values if value <= 21]
ValidValues(hv) == SelectSeq(hv, LAMBDA v : v <= 21)

\* ------------------------------------------------------------------------
\* hand.py : Hand
\* ------------------------------------------------------------------------

\* the loop of Hand.calc_hand_value: the aces met so far
RECURSIVE n_aces(_)
n_aces(cards) ==
  IF cards = << >> THEN 0
  ELSE (IF blackjack_value(cards[1]).kind = "list" THEN 1 ELSE 0)
       + n_aces(Tail(cards))

\* the loop of Hand.calc_hand_value: every ace adds value[0] = 1
RECURSIVE low_total(_)
low_total(cards) ==
  IF cards = << >> THEN 0
  ELSE (LET value == blackjack_value(cards[1])
        IN  IF value.kind = "list" THEN value.v[1] ELSE value.v)
       + low_total(Tail(cards))

\* Hand.calc_hand_value: the list stored in hand_value
calc_hand_value(cards) ==
  IF n_aces(cards) # 0
    THEN << low_total(cards), low_total(cards) + 10 * n_aces(cards) >>
    ELSE << low_total(cards) >>

\* Hand.get_hand_value recomputes and returns hand_value
get_hand_value(cards) == calc_hand_value(cards)

\* ------------------------------------------------------------------------
\* dealer.py : Dealer
\* ------------------------------------------------------------------------

\* Dealer.is_bust
dealer_is_bust(cards) ==
  \A i \in DOMAIN get_hand_value(cards) : get_hand_value(cards)[i] > 21

\* a blackjack test that reads the first of the totals alone
has_blackjack_first_total(cards) ==
  IF Len(cards) = 2
    THEN get_hand_value(cards)[1] = 21
    ELSE FALSE

\* Dealer._check_for_blackjack / Dealer.has_blackjack
has_blackjack(cards) ==
  IF Len(cards) = 2
    THEN In(21, get_hand_value(cards))
    ELSE FALSE

\* a dealer policy that looks at the all-aces-as-1 total alone
should_hit_low_only(cards) == SeqMin(get_hand_value(cards)) < 17

\* Dealer.should_hit
should_hit(cards) ==
  LET hand_values == get_hand_value(cards) IN
  IF dealer_is_bust(cards) THEN FALSE
  ELSE IF has_blackjack(cards) THEN FALSE
  ELSE IF In(17, hand_values) /\ Len(hand_values) > 1 THEN TRUE
  ELSE SeqMax(hand_values) < 17

\* Dealer.get_best_hand_value with the lowest valid value for the highest
dealer_best_lowest_valid(cards) ==
  LET hand_values == get_hand_value(cards)
      valid_values == ValidValues(hand_values)
  IN  IF valid_values # << >> THEN SeqMin(valid_values)
      ELSE SeqMin(hand_values)

\* Dealer.get_best_hand_value
dealer_get_best_hand_value(cards) ==
  LET hand_values == get_hand_value(cards)
      valid_values == ValidValues(hand_values)
  IN  IF valid_values # << >> THEN SeqMax(valid_values)
      ELSE SeqMin(hand_values)

\* ------------------------------------------------------------------------
\* game.py : Game.get_best_hand_value
\* ------------------------------------------------------------------------

game_get_best_hand_value(hand_values) ==
  LET valid_values == ValidValues(hand_values)
  IN  IF valid_values # << >> THEN SeqMax(valid_values)
      ELSE SeqMin(hand_values)

\* ------------------------------------------------------------------------
\* game.py : configuration set by Game.__init__
\* ------------------------------------------------------------------------

\* the largest table of the model (Game.__init__ seats three players)
MaxPlayers == 2

\* the starting bankroll given to every player
StartBank == 200
min_bet == 10
max_bet == 100

\* BlackjackDeck: num_decks and deck_cut_range
NumDecks == 6
deck_cut_lo == 60
deck_cut_hi == 75
\* 4 suits of 13 values
DeckCards == 4 * Len(VALUES)

\* the rounds the model plays: it follows the game through this many rounds
\* and the reset that ends the last of them
MaxRounds == 3
\* a player of the model does not ask for a card beyond this hand length
MaxHit == 3

\* the tables of the model: the seats taken, and the ranks of the cards the
\* shuffled shoe deals. A table of one is dealt aces, sixes and kings; a
\* larger table is dealt sixes and kings.
Tables ==
  { [seats |-> n,
     ranks |-> IF n = 1 THEN {"Ace", "6", "King"} ELSE {"6", "King"}]
    : n \in 1 .. MaxPlayers }

\* the cut random.randint picks within deck_cut_range: the shoe of the model
\* is cut at the low end of the range
CutChoices == { deck_cut_lo }

\* ------------------------------------------------------------------------
\* State
\* ------------------------------------------------------------------------

VARIABLES
  deck,             \* Game.deck.deck: the number of cards left in the shoe
  shoe_ranks,       \* Game.deck.deck: the ranks of the cards the shoe deals
  discard_pile,     \* Game.deck.discard_pile: the number of cards discarded
  current_hand,     \* Player.current_hand, per player: the ranks held
  money_pool,       \* Player.money_pool
  bankrupt,         \* Player.bankrupt
  is_bust,          \* Player.is_bust
  dealer_hand,      \* Game.dealer.current_hand
  hole_card_hidden, \* Game.dealer.hole_card_hidden
  has_revealed,     \* Game.dealer.has_revealed
  main_pot,         \* Game.main_pot
  player_bets,      \* Game.player_bets: a dict keyed by player
  state,            \* Game.state
  players_remaining,\* Game.players_remaining
  num_rounds,       \* Game.num_rounds
  quit_game,        \* the local quit_game of launch_game
  pc,               \* the position of launch_game
  turn,             \* the player the for loop of the current phase is at
  hand,             \* SpecHand: Hand.current_hand of the hand under study
  bettor,           \* SpecBet: the Player under study and its last call
  shoe,             \* SpecDraw, SpecShoe: the Deck under study
  made              \* SpecObj: the last call under study and what it made

\* the players of Game.players, in list order
Players == DOMAIN money_pool
NumPlayers == Len(money_pool)

gameVars ==
  << deck, shoe_ranks, discard_pile, current_hand, money_pool, bankrupt, is_bust,
     dealer_hand, hole_card_hidden, has_revealed, main_pot, player_bets,
     state, players_remaining, num_rounds, quit_game, pc, turn >>

vars == << gameVars, hand, bettor, shoe, made >>

\* the specifications that do not run the game leave it unbuilt
GameIdle ==
  /\ deck = 0 /\ shoe_ranks = {} /\ discard_pile = 0
  /\ current_hand = << >> /\ money_pool = << >>
  /\ bankrupt = << >> /\ is_bust = << >>
  /\ dealer_hand = << >> /\ hole_card_hidden = TRUE /\ has_revealed = FALSE
  /\ main_pot = 0 /\ player_bets = << >>
  /\ state = "none" /\ players_remaining = 0 /\ num_rounds = 0
  /\ quit_game = FALSE /\ pc = "none" /\ turn = 0

HandIdle == hand = << >>
BettorIdle == bettor = [pc |-> "none"]
ShoeIdle == shoe = [pc |-> "none"]
MadeIdle == made = [pc |-> "none"]

\* ------------------------------------------------------------------------
\* SpecHand : Hand.__init__ and Hand.add_card
\* ------------------------------------------------------------------------

\* Hand.__init__ with a two-card predraw
HandInit ==
  /\ hand \in { <<a, b>> : a \in Ranks, b \in Ranks }
  /\ GameIdle /\ BettorIdle /\ ShoeIdle /\ MadeIdle

\* Hand.add_card
add_card(cards, card) == Append(cards, card)

HandAddCard ==
  /\ Len(hand) < MaxCards
  /\ \E card \in Ranks : hand' = add_card(hand, card)
  /\ UNCHANGED << gameVars, bettor, shoe, made >>

HandNext == HandAddCard

SpecHand == HandInit /\ [][HandNext]_vars

\* ------------------------------------------------------------------------
\* player.py : Player
\* ------------------------------------------------------------------------

\* a bankruptcy test that lets an empty bankroll pass
check_bankruptcy_negative(pool) == pool < 0

\* Player.check_bankruptcy: the flag it stores
check_bankruptcy(pool) == pool <= 0

\* Player.bet_to_pot debiting the amount asked for, not the amount cut
bet_to_pot_debit_request(pool, bet) ==
  LET flag == pool <= 0
      actual == IF bet >= pool /\ ~flag THEN pool ELSE bet
  IN  [money_pool |-> pool - bet, bankrupt |-> flag, returned |-> actual]

\* Player.bet_to_pot without the all-in cut
bet_to_pot_no_clamp(pool, bet) ==
  [money_pool |-> pool - bet, bankrupt |-> check_bankruptcy(pool),
   returned |-> bet]

\* Player.bet_to_pot on a bankroll: the flag is recomputed first, a bet of
\* the bankroll or more is cut to the bankroll, the bet is debited
bet_to_pot(pool, bet) ==
  LET flag == check_bankruptcy(pool)
      actual == IF bet >= pool /\ ~flag THEN pool ELSE bet
  IN  [money_pool |-> pool - actual, bankrupt |-> flag, returned |-> actual]

\* Game.payout_winnings with a win paying the stake once
winnings_stake_only(result, bet_amount) ==
  IF result = "win" THEN bet_amount
  ELSE IF result = "push" THEN bet_amount
  ELSE 0

\* Game.payout_winnings: what a result adds to the bankroll
winnings(result, bet_amount) ==
  IF result = "win" THEN bet_amount * 2
  ELSE IF result = "push" THEN bet_amount
  ELSE 0

\* ------------------------------------------------------------------------
\* SpecBet : a Player between its construction, its bets and its payouts
\* ------------------------------------------------------------------------

\* the largest starting bankroll and the largest amount asked for
MaxBank == 4
MaxRequest == 6

\* Player.__init__ rejects a bankroll <= 0
BetInit ==
  /\ bettor \in { [pc |-> "new", money_pool |-> b, bankrupt |-> FALSE,
                   requested |-> 0, returned |-> 0, before |-> b]
                  : b \in 1 .. MaxBank }
  /\ GameIdle /\ HandIdle /\ ShoeIdle /\ MadeIdle

\* handle_betting_round skips a bankrupt player, and bets through bet_to_pot
BetPlace ==
  /\ bettor.pc \in {"new", "paid"}
  /\ ~bettor.bankrupt
  /\ \E bet \in 1 .. MaxRequest :
       LET r == bet_to_pot(bettor.money_pool, bet) IN
       bettor' = [pc |-> "bet", money_pool |-> r.money_pool,
                  bankrupt |-> r.bankrupt, requested |-> bet,
                  returned |-> r.returned, before |-> bettor.money_pool]
  /\ UNCHANGED << gameVars, hand, shoe, made >>

\* payout_winnings settles the bet and calls check_bankruptcy
BetSettle ==
  /\ bettor.pc = "bet"
  /\ \E result \in {"win", "push", "lose", "bust"} :
       LET pool == bettor.money_pool + winnings(result, bettor.returned) IN
       /\ pool <= 2 * MaxBank
       /\ bettor' = [bettor EXCEPT !.pc = "paid", !.money_pool = pool,
                                   !.bankrupt = check_bankruptcy(pool)]
  /\ UNCHANGED << gameVars, hand, shoe, made >>

BetNext == BetPlace \/ BetSettle

SpecBet == BetInit /\ [][BetNext]_vars

\* ------------------------------------------------------------------------
\* SpecAsk : one player asked for a bet by handle_betting_round
\* ------------------------------------------------------------------------

\* the most inputs the prompt rejects before it is given one it takes
MaxTries == 2

\* the bankrolls of the player asked
AskPools ==
  { 1, min_bet - 1, min_bet, min_bet + 1, max_bet - 1, max_bet,
    max_bet + 1, StartBank }

\* what is typed at the prompt: a number, "nan", or text float() rejects
AskInputs ==
  { [kind |-> "number", v |-> n] :
      n \in { 0 - min_bet, 0, 1, min_bet - 1, min_bet, min_bet + 1,
              max_bet - 1, max_bet, max_bet + 1, StartBank,
              StartBank + 1 } }
    \cup { [kind |-> "nan"], [kind |-> "text"] }

\* a prompt that takes any amount of min_bet or more
get_player_bet_once_no_max(pool, bet_input) ==
  LET max_possible_bet == IF max_bet <= pool THEN max_bet ELSE pool IN
  IF max_possible_bet < min_bet THEN [kind |-> "return", v |-> 0]
  ELSE IF bet_input.kind # "number" THEN [kind |-> "again"]
  ELSE IF bet_input.v = 0 THEN [kind |-> "return", v |-> 0]
  ELSE IF bet_input.v < min_bet THEN [kind |-> "again"]
  ELSE [kind |-> "return", v |-> bet_input.v]

\* Game.get_player_bet on one input: the value returned, or one more pass
\* of the loop. Every comparison with nan is false, so nan is returned.
get_player_bet_once(pool, bet_input) ==
  LET max_possible_bet == IF max_bet <= pool THEN max_bet ELSE pool IN
  IF max_possible_bet < min_bet THEN [kind |-> "return", v |-> 0]
  ELSE IF bet_input.kind = "text" THEN [kind |-> "again"]
  ELSE IF bet_input.kind = "nan" THEN [kind |-> "return_nan"]
  ELSE IF bet_input.v = 0 THEN [kind |-> "return", v |-> 0]
  ELSE IF bet_input.v < min_bet THEN [kind |-> "again"]
  ELSE IF bet_input.v > max_possible_bet THEN [kind |-> "again"]
  ELSE [kind |-> "return", v |-> bet_input.v]

AskInit ==
  /\ bettor \in { [pc |-> "asking", money_pool |-> b, before |-> b,
                   bet_input |-> [kind |-> "none"], tries |-> 0]
                  : b \in AskPools }
  /\ GameIdle /\ HandIdle /\ ShoeIdle /\ MadeIdle

\* handle_betting_round lines 514-522 for one answer at the prompt: a bet
\* above 0 goes through bet_to_pot and is recorded, anything else returned
\* is a fold, and a rejected input asks again
Ask ==
  /\ bettor.pc = "asking"
  /\ \E bet_input \in AskInputs :
       LET a == get_player_bet_once(bettor.money_pool, bet_input) IN
       IF a.kind = "again"
         THEN /\ bettor.tries < MaxTries
              /\ bettor' = [bettor EXCEPT !.bet_input = bet_input,
                                          !.tries = @ + 1]
       ELSE IF a.kind = "return" /\ a.v > 0
         THEN LET r == bet_to_pot(bettor.money_pool, a.v) IN
              bettor' = [pc |-> "recorded", money_pool |-> r.money_pool,
                         before |-> bettor.money_pool,
                         bet_input |-> bet_input, tries |-> bettor.tries,
                         player_bet |-> r.returned]
       ELSE bettor' = [bettor EXCEPT !.pc = "folded",
                                     !.bet_input = bet_input]
  /\ UNCHANGED << gameVars, hand, shoe, made >>

AskNext == Ask

SpecAsk == AskInit /\ [][AskNext]_vars

\* ------------------------------------------------------------------------
\* SpecDraw : a BlackjackDeck and the draws made from it
\* ------------------------------------------------------------------------

\* the most cards of the shoe under study, the most cards asked for at once
MaxShoe == 3
MaxDraw == 3

\* the shoes under study: the cards left, the top of the shoe first
Shoes == UNION { [1 .. n -> Ranks] : n \in 0 .. MaxShoe }

\* Deck.draw_card: an empty deck raises; else the slices deck[:num_cards]
\* and deck[num_cards:]
deck_draw_card(d, num_cards) ==
  IF d = << >>
    THEN [kind |-> "ValueError", drawn |-> << >>, deck |-> d]
    ELSE [kind |-> "return",
          drawn |-> SubSeq(d, 1, IF num_cards <= Len(d) THEN num_cards
                                 ELSE Len(d)),
          deck |-> SubSeq(d, num_cards + 1, Len(d))]

\* BlackjackDeck.draw_card: the cards of Deck.draw_card, each given its
\* blackjack_value
blackjack_draw_card(d, num_cards) ==
  LET r == deck_draw_card(d, num_cards) IN
  IF r.kind = "ValueError" THEN r
  ELSE [r EXCEPT !.drawn =
          [i \in DOMAIN r.drawn |->
             [value |-> r.drawn[i],
              blackjack_value |-> blackjack_value(r.drawn[i])]]]

DrawInit ==
  /\ shoe \in { [pc |-> "new", deck |-> d, num_cards |-> 0, drawn |-> << >>,
                 before |-> d] : d \in Shoes }
  /\ GameIdle /\ HandIdle /\ BettorIdle /\ MadeIdle

\* one call of draw_card(num_cards); a raised ValueError ends the run
DrawCard ==
  /\ shoe.pc \in {"new", "return"}
  /\ \E num_cards \in 1 .. MaxDraw :
       LET r == blackjack_draw_card(shoe.deck, num_cards) IN
       shoe' = [pc |-> r.kind, deck |-> r.deck, num_cards |-> num_cards,
                drawn |-> r.drawn, before |-> shoe.deck]
  /\ UNCHANGED << gameVars, hand, bettor, made >>

DrawNext == DrawCard

SpecDraw == DrawInit /\ [][DrawNext]_vars

\* ------------------------------------------------------------------------
\* SpecShoe : BlackjackDeck.__init__
\* ------------------------------------------------------------------------

\* Deck.SUITS, in the order of the source
SUITS == << "Hearts", "Diamonds", "Clubs", "Spades" >>

\* the most decks of a shoe of the model, besides the default num_decks
MaxDecks == 2

\* the values of num_decks the model builds a shoe from
DeckCounts == (1 .. MaxDecks) \cup { NumDecks }

\* Deck.__init__: Card(suit, value) for suit in SUITS for value in VALUES
single_deck ==
  [i \in 1 .. Len(SUITS) * Len(VALUES) |->
     [suit |-> SUITS[((i - 1) \div Len(VALUES)) + 1],
      value |-> VALUES[((i - 1) % Len(VALUES)) + 1]]]

\* random.shuffle: the orders the model lets it produce out of a list
ShuffleKinds == { "kept", "reversed", "rotated" }

Shuffled(d, kind) ==
  IF d = << >> THEN d
  ELSE CASE kind = "kept" -> d
         [] kind = "reversed" -> [i \in 1 .. Len(d) |-> d[Len(d) + 1 - i]]
         [] kind = "rotated" -> [i \in 1 .. Len(d) |-> d[(i % Len(d)) + 1]]

\* a copy of every card of single for _ in range(num_decks)
Replicate(single, num_decks) ==
  [i \in 1 .. num_decks * Len(single) |->
     single[((i - 1) % Len(single)) + 1]]

\* random.randint(*deck_cut_range)
CutRange == deck_cut_lo .. deck_cut_hi

\* BlackjackDeck.__init__: one deck is built and shuffled, copied
\* num_decks times, shuffled, and cut: the slices deck[-cutval:] and
\* deck[:-cutval] take the whole list when it holds cutval cards or fewer
BuildShoe(num_decks, first, second, cutval) ==
  LET d == Shuffled(Replicate(Shuffled(single_deck, first), num_decks),
                    second)
      kept == IF Len(d) - cutval > 0 THEN Len(d) - cutval ELSE 0
  IN  [deck |-> SubSeq(d, 1, kept),
       discard_pile |-> SubSeq(d, kept + 1, Len(d))]

ShoeInit ==
  /\ shoe = [pc |-> "unbuilt"]
  /\ GameIdle /\ HandIdle /\ BettorIdle /\ MadeIdle

\* one call of BlackjackDeck(num_decks)
ShoeBuild ==
  /\ shoe.pc = "unbuilt"
  /\ \E num_decks \in DeckCounts, first \in ShuffleKinds,
        second \in ShuffleKinds, cutval \in CutRange :
       LET b == BuildShoe(num_decks, first, second, cutval) IN
       shoe' = [pc |-> "built", num_decks |-> num_decks, cutval |-> cutval,
                deck |-> b.deck, discard_pile |-> b.discard_pile]
  /\ UNCHANGED << gameVars, hand, bettor, made >>

ShoeNext == ShoeBuild

SpecShoe == ShoeInit /\ [][ShoeNext]_vars

\* ------------------------------------------------------------------------
\* SpecObj : the constructors, the value lookup and the stored totals
\* ------------------------------------------------------------------------

\* the longest list of cards handed to a constructor
MaxPredraw == 3

\* the ranks of the cards handed to the constructors and to add_card
ObjRanks == { "Ace", "2", "9", "King" }

\* the lists of at most n cards
CardLists(n) == UNION { [1 .. k -> ObjRanks] : k \in 0 .. n }

\* the arguments predraw, player_initial_draw and initial_cards
Predraws == CardLists(MaxPredraw)

\* the arguments player_bank
BankArgs == { 0 - StartBank, 0, StartBank }

\* values of Card.value that Deck.VALUES does not hold
InvalidValues == { "0", "1", "11", "J", "ace", "Joker" }

\* a hand that keeps the totals of the cards it was built from
Hand_init_no_check(predraw) ==
  [kind |-> "Hand", current_hand |-> predraw,
   hand_value |-> calc_hand_value(predraw), n_aces |-> n_aces(predraw)]

\* Hand.__init__: the object made, or the ValueError raised
Hand_init(predraw) ==
  IF Len(predraw) < 2
    THEN [kind |-> "ValueError"]
    ELSE [kind |-> "Hand", current_hand |-> predraw,
          hand_value |-> calc_hand_value(predraw),
          n_aces |-> n_aces(predraw)]

\* Player.__init__: the bankroll is checked before the hand is built
Player_init(player_bank, player_initial_draw) ==
  IF player_bank <= 0
    THEN [kind |-> "ValueError"]
    ELSE LET h == Hand_init(player_initial_draw) IN
         IF h.kind = "ValueError" THEN h
         ELSE [kind |-> "Player", current_hand |-> h.current_hand,
               hand_value |-> h.hand_value, n_aces |-> h.n_aces,
               money_pool |-> player_bank, bankrupt |-> FALSE,
               is_bust |-> FALSE]

\* Dealer.__init__
Dealer_init(initial_cards) ==
  LET h == Hand_init(initial_cards) IN
  IF h.kind = "ValueError" THEN h
  ELSE [kind |-> "Dealer", current_hand |-> h.current_hand,
        hand_value |-> h.hand_value, n_aces |-> h.n_aces,
        hole_card_hidden |-> TRUE, has_revealed |-> FALSE]

\* a card appended with the totals left as they were
Hand_add_card_stale(h, card) ==
  [h EXCEPT !.current_hand = Append(@, card)]

\* Hand.add_card on an object: the append, then calc_hand_value
Hand_add_card(h, card) ==
  [h EXCEPT !.current_hand = add_card(@, card),
            !.hand_value = calc_hand_value(add_card(h.current_hand, card)),
            !.n_aces = n_aces(add_card(h.current_hand, card))]

\* Game.reset_round on a player: is_bust cleared, the hand replaced by the
\* cards drawn, then calc_hand_value
Hand_replace(h, cards) ==
  [h EXCEPT !.is_bust = FALSE,
            !.current_hand = cards,
            !.hand_value = calc_hand_value(cards),
            !.n_aces = n_aces(cards)]

ObjInit ==
  /\ made = [pc |-> "start"]
  /\ GameIdle /\ HandIdle /\ BettorIdle /\ ShoeIdle

\* one call of Hand(...), Player(...) or Dealer(...)
Construct ==
  /\ made.pc = "start"
  /\ \E predraw \in Predraws :
       \/ made' = [pc |-> "made", asked |-> "Hand", predraw |-> predraw,
                   player_bank |-> StartBank, obj |-> Hand_init(predraw)]
       \/ made' = [pc |-> "made", asked |-> "Dealer", predraw |-> predraw,
                   player_bank |-> StartBank, obj |-> Dealer_init(predraw)]
       \/ \E player_bank \in BankArgs :
            made' = [pc |-> "made", asked |-> "Player",
                     predraw |-> predraw, player_bank |-> player_bank,
                     obj |-> Player_init(player_bank, predraw)]
  /\ UNCHANGED << gameVars, hand, bettor, shoe >>

\* add_card on the object that was made
ObjAddCard ==
  /\ made.pc \in { "made", "used" }
  /\ made.obj.kind # "ValueError"
  /\ Len(made.obj.current_hand) < MaxCards
  /\ \E card \in ObjRanks :
       made' = [made EXCEPT !.pc = "used", !.obj = Hand_add_card(@, card)]
  /\ UNCHANGED << gameVars, hand, bettor, shoe >>

\* reset_round on the player that was made: draw_card(2) hands over two
\* cards, or the one card a shoe of one card has left
ObjReplace ==
  /\ made.pc \in { "made", "used" }
  /\ made.obj.kind = "Player"
  /\ \E cards \in CardLists(2) :
       /\ cards # << >>
       /\ made' = [made EXCEPT !.pc = "used",
                                !.obj = Hand_replace(@, cards)]
  /\ UNCHANGED << gameVars, hand, bettor, shoe >>

\* one call of BlackjackDeck.blackjack_value
ValueLookup ==
  /\ made.pc = "start"
  /\ \E value \in Ranks \cup InvalidValues :
       made' = [pc |-> "value", value |-> value,
                result |-> blackjack_value(value)]
  /\ UNCHANGED << gameVars, hand, bettor, shoe >>

ObjNext == Construct \/ ObjAddCard \/ ObjReplace \/ ValueLookup

SpecObj == ObjInit /\ [][ObjNext]_vars

\* ------------------------------------------------------------------------
\* game.py : Game
\* ------------------------------------------------------------------------

TwoCards == { <<a, b>> : a \in shoe_ranks, b \in shoe_ranks }

\* a slice that leaves the last card asked for in the shoe
Take_short(d, num_cards) == IF d >= num_cards THEN num_cards - 1 ELSE d

\* Deck.draw_card: the slice deck[:num_cards] of a shoe of d cards
Take(d, num_cards) == IF d >= num_cards THEN num_cards ELSE d

\* Game.__init__: the shoe is built and cut, every player and then the
\* dealer is dealt two cards
Init ==
  /\ \E table \in Tables, cutval \in CutChoices :
       /\ shoe_ranks = table.ranks
       /\ discard_pile = cutval
       /\ deck = NumDecks * DeckCards - cutval - 2 * table.seats - 2
       /\ money_pool = [p \in 1 .. table.seats |-> StartBank]
       /\ bankrupt = [p \in 1 .. table.seats |-> FALSE]
       /\ is_bust = [p \in 1 .. table.seats |-> FALSE]
       /\ players_remaining = table.seats
  /\ current_hand \in [Players -> TwoCards]
  /\ dealer_hand \in TwoCards
  /\ hole_card_hidden = TRUE
  /\ has_revealed = FALSE
  /\ main_pot = 0
  /\ player_bets = << >>
  /\ state = "betting"
  /\ num_rounds = 0
  /\ quit_game = FALSE
  /\ pc = "betting"
  /\ turn = 1
  /\ HandIdle /\ BettorIdle /\ ShoeIdle /\ MadeIdle

\* Game.get_player_bet without the test against the table minimum
get_player_bet_no_minimum(p) ==
  { 0, IF max_bet <= money_pool[p] THEN max_bet ELSE money_pool[p] }

\* Game.get_player_bet: the amounts it can return for a player; the inputs
\* of the model are a fold (0) and the most the player may bet
get_player_bet(p) ==
  LET max_possible_bet ==
        IF max_bet <= money_pool[p] THEN max_bet ELSE money_pool[p]
  IN  IF max_possible_bet < min_bet THEN {0}
      ELSE {0} \cup { bet_amount \in {max_possible_bet} :
                        /\ ~(bet_amount < min_bet)
                        /\ ~(bet_amount > max_possible_bet) }

\* Game.determine_winner with >= for >
determine_winner_tie_wins(p) ==
  IF is_bust[p] THEN "bust"
  ELSE LET player_best ==
             game_get_best_hand_value(get_hand_value(current_hand[p]))
           dealer_best == dealer_get_best_hand_value(dealer_hand)
       IN  IF dealer_is_bust(dealer_hand) THEN "win"
           ELSE IF player_best >= dealer_best THEN "win"
           ELSE IF player_best = dealer_best THEN "push"
           ELSE "lose"

\* Game.determine_winner
determine_winner(p) ==
  IF is_bust[p] THEN "bust"
  ELSE LET player_best ==
             game_get_best_hand_value(get_hand_value(current_hand[p]))
           dealer_best == dealer_get_best_hand_value(dealer_hand)
       IN  IF dealer_is_bust(dealer_hand) THEN "win"
           ELSE IF player_best > dealer_best THEN "win"
           ELSE IF player_best = dealer_best THEN "push"
           ELSE "lose"

\* Game.any_players_not_bust
any_players_not_bust == \E p \in Players : ~is_bust[p]

\* Game.check_game_bust
check_game_bust == \A p \in Players : bankrupt[p]

\* a for loop that ends after its first iteration
NextPlayer_first_only(after) == pc' = after /\ turn' = turn

\* the for loops over self.players: on to the next player, or to what
\* follows the loop
NextPlayer(after) ==
  IF turn = NumPlayers
    THEN pc' = after /\ turn' = 1
    ELSE pc' = pc /\ turn' = turn + 1

\* Game.handle_betting_round, the iteration for one player (lines 173, 504-522)
HandleBet ==
  /\ pc = "betting"
  /\ num_rounds < MaxRounds
  /\ state' = "betting"
  /\ IF bankrupt[turn]
       THEN UNCHANGED << money_pool, bankrupt, main_pot, player_bets, is_bust >>
       ELSE \E bet_amount \in get_player_bet(turn) :
              IF bet_amount > 0
                THEN LET r == bet_to_pot(money_pool[turn], bet_amount) IN
                     /\ money_pool' = [money_pool EXCEPT ![turn] = r.money_pool]
                     /\ bankrupt' = [bankrupt EXCEPT ![turn] = r.bankrupt]
                     /\ main_pot' = main_pot + r.returned
                     /\ player_bets' =
                          [q \in DOMAIN player_bets \cup {turn} |->
                             IF q = turn THEN r.returned ELSE player_bets[q]]
                     /\ UNCHANGED is_bust
                ELSE /\ is_bust' = [is_bust EXCEPT ![turn] = TRUE]
                     /\ UNCHANGED << money_pool, bankrupt, main_pot,
                                     player_bets >>
  /\ NextPlayer("check_active")
  /\ UNCHANGED << shoe_ranks, deck, discard_pile, current_hand, dealer_hand,
                  hole_card_hidden, has_revealed, players_remaining,
                  num_rounds, quit_game, hand, bettor, shoe, made >>

\* a check after the bets that ends the game on bankruptcy alone
CheckActive_bankrupt_only ==
  /\ pc = "check_active"
  /\ IF \A p \in Players : bankrupt[p]
       THEN pc' = "done" /\ UNCHANGED state
       ELSE pc' = "peek" /\ state' = "player_turn"
  /\ UNCHANGED << shoe_ranks, deck, discard_pile, current_hand, money_pool,
                  bankrupt, is_bust, dealer_hand, hole_card_hidden,
                  has_revealed, main_pot, player_bets, players_remaining,
                  num_rounds, quit_game, turn, hand, bettor, shoe, made >>

\* launch_game lines 177-184: nobody left after the bets ends the game
CheckActive ==
  /\ pc = "check_active"
  /\ IF \A p \in Players : is_bust[p] \/ bankrupt[p]
       THEN pc' = "done" /\ UNCHANGED state
       ELSE pc' = "peek" /\ state' = "player_turn"
  /\ UNCHANGED << shoe_ranks, deck, discard_pile, current_hand, money_pool, bankrupt,
                  is_bust, dealer_hand, hole_card_hidden, has_revealed,
                  main_pot, player_bets, players_remaining, num_rounds,
                  quit_game, turn, hand, bettor, shoe, made >>

\* a reveal that turns the hole card over at every call
reveal_hole_card_toggle ==
  hole_card_hidden' = ~hole_card_hidden /\ has_revealed' = TRUE

\* a reveal that leaves the hole card as it is
reveal_hole_card_skipped == UNCHANGED << hole_card_hidden, has_revealed >>

\* Dealer.reveal_hole_card sets both flags when the hole card is hidden
reveal_hole_card ==
  IF hole_card_hidden
    THEN hole_card_hidden' = FALSE /\ has_revealed' = TRUE
    ELSE UNCHANGED << hole_card_hidden, has_revealed >>

\* launch_game lines 194-201: a dealer blackjack goes to the showdown
Peek ==
  /\ pc = "peek"
  /\ IF has_blackjack(dealer_hand)
       THEN /\ reveal_hole_card
            /\ state' = "showdown"
            /\ pc' = "payout"
       ELSE /\ pc' = "player_turn"
            /\ UNCHANGED << hole_card_hidden, has_revealed, state >>
  /\ turn' = 1
  /\ UNCHANGED << shoe_ranks, deck, discard_pile, current_hand, money_pool, bankrupt,
                  is_bust, dealer_hand, main_pot, player_bets,
                  players_remaining, num_rounds, quit_game, hand, bettor, shoe, made >>

\* a for loop of the player turns that passes over busted players alone
Inactive_bust_only(p) == is_bust[p]

\* a for loop of the player turns that passes over bankrupt players alone
Inactive_bankrupt_only(p) == bankrupt[p]

\* a player the for loop of the player turns passes over (line 204)
Inactive(p) == is_bust[p] \/ bankrupt[p]

\* launch_game lines 203-205
PlayerSkip ==
  /\ pc = "player_turn"
  /\ Inactive(turn)
  /\ NextPlayer("dealer_phase")
  /\ UNCHANGED << shoe_ranks, deck, discard_pile, current_hand, money_pool, bankrupt,
                  is_bust, dealer_hand, hole_card_hidden, has_revealed,
                  main_pot, player_bets, state, players_remaining,
                  num_rounds, quit_game, hand, bettor, shoe, made >>

\* action "1": Game.hit draws a card, adds it and runs check_if_bust; a
\* bust ends the player's loop. Deck.draw_card raises on an empty shoe.
PlayerHit ==
  /\ pc = "player_turn"
  /\ ~Inactive(turn)
  /\ Len(current_hand[turn]) < MaxHit
  /\ IF deck = 0
       THEN /\ pc' = "ValueError"
            /\ UNCHANGED << deck, current_hand, is_bust, players_remaining,
                            turn >>
       ELSE \E card \in shoe_ranks :
              LET cards == add_card(current_hand[turn], card)
                  hand_value == get_hand_value(cards)
                  now_bust ==
                    (\A i \in DOMAIN hand_value : hand_value[i] > 21)
                      /\ ~is_bust[turn]
              IN  /\ deck' = deck - 1
                  /\ current_hand' = [current_hand EXCEPT ![turn] = cards]
                  /\ IF now_bust
                       THEN /\ players_remaining' = players_remaining - 1
                            /\ is_bust' = [is_bust EXCEPT ![turn] = TRUE]
                            /\ NextPlayer("dealer_phase")
                       ELSE UNCHANGED << players_remaining, is_bust, pc,
                                         turn >>
  /\ UNCHANGED << shoe_ranks, discard_pile, money_pool, bankrupt, dealer_hand,
                  hole_card_hidden, has_revealed, main_pot, player_bets,
                  state, num_rounds, quit_game, hand, bettor, shoe, made >>

\* action "2": Game.handle_pass, then the next player
PlayerStand ==
  /\ pc = "player_turn"
  /\ ~Inactive(turn)
  /\ NextPlayer("dealer_phase")
  /\ UNCHANGED << shoe_ranks, deck, discard_pile, current_hand, money_pool, bankrupt,
                  is_bust, dealer_hand, hole_card_hidden, has_revealed,
                  main_pot, player_bets, state, players_remaining,
                  num_rounds, quit_game, hand, bettor, shoe, made >>

\* a quit that hands the bets of the round back
PlayerQuit_refunds ==
  /\ pc = "player_turn"
  /\ ~Inactive(turn)
  /\ quit_game' = TRUE
  /\ pc' = "done"
  /\ money_pool' =
       [p \in Players |->
          IF p \in DOMAIN player_bets
            THEN money_pool[p] + player_bets[p] ELSE money_pool[p]]
  /\ UNCHANGED << shoe_ranks, deck, discard_pile, current_hand, bankrupt,
                  is_bust, dealer_hand, hole_card_hidden, has_revealed,
                  main_pot, player_bets, state, players_remaining,
                  num_rounds, turn, hand, bettor, shoe, made >>

\* action "3": quit_game leaves both loops (lines 228-236)
PlayerQuit ==
  /\ pc = "player_turn"
  /\ ~Inactive(turn)
  /\ quit_game' = TRUE
  /\ pc' = "done"
  /\ UNCHANGED << shoe_ranks, deck, discard_pile, current_hand, money_pool, bankrupt,
                  is_bust, dealer_hand, hole_card_hidden, has_revealed,
                  main_pot, player_bets, state, players_remaining,
                  num_rounds, turn, hand, bettor, shoe, made >>

\* launch_game lines 238-241 and Game.handle_dealer_turn up to its loop
DealerPhase ==
  /\ pc = "dealer_phase"
  /\ IF any_players_not_bust
       THEN /\ state' = "dealer_turn"
            /\ reveal_hole_card
            /\ pc' = IF has_blackjack(dealer_hand) THEN "showdown"
                     ELSE "dealer_loop"
       ELSE /\ pc' = "showdown"
            /\ UNCHANGED << state, hole_card_hidden, has_revealed >>
  /\ UNCHANGED << shoe_ranks, deck, discard_pile, current_hand, money_pool, bankrupt,
                  is_bust, dealer_hand, main_pot, player_bets,
                  players_remaining, num_rounds, quit_game, turn, hand,
                  bettor, shoe, made >>

\* a pass of the dealer's loop that draws a card and does not add it
DealerHit_drops_card ==
  /\ pc = "dealer_loop"
  /\ should_hit(dealer_hand)
  /\ IF deck = 0
       THEN pc' = "ValueError" /\ UNCHANGED deck
       ELSE deck' = deck - 1 /\ UNCHANGED pc
  /\ UNCHANGED << shoe_ranks, discard_pile, current_hand, money_pool,
                  bankrupt, is_bust, dealer_hand, hole_card_hidden,
                  has_revealed, main_pot, player_bets, state,
                  players_remaining, num_rounds, quit_game, turn, hand,
                  bettor, shoe, made >>

\* Game.handle_dealer_turn, one pass of "while self.dealer.should_hit()"
DealerHit ==
  /\ pc = "dealer_loop"
  /\ should_hit(dealer_hand)
  /\ IF deck = 0
       THEN /\ pc' = "ValueError"
            /\ UNCHANGED << deck, dealer_hand >>
       ELSE \E card \in shoe_ranks :
              /\ deck' = deck - 1
              /\ dealer_hand' = add_card(dealer_hand, card)
              /\ pc' = IF dealer_is_bust(add_card(dealer_hand, card))
                         THEN "showdown" ELSE "dealer_loop"
  /\ UNCHANGED << shoe_ranks, discard_pile, current_hand, money_pool, bankrupt, is_bust,
                  hole_card_hidden, has_revealed, main_pot, player_bets,
                  state, players_remaining, num_rounds, quit_game, turn,
                  hand, bettor, shoe, made >>

\* a dealer loop that does not end when should_hit is false
DealerStand_loops ==
  /\ pc = "dealer_loop"
  /\ ~should_hit(dealer_hand)
  /\ UNCHANGED vars

\* Game.handle_dealer_turn: should_hit is false, the loop ends
DealerStand ==
  /\ pc = "dealer_loop"
  /\ ~should_hit(dealer_hand)
  /\ pc' = "showdown"
  /\ UNCHANGED << shoe_ranks, deck, discard_pile, current_hand, money_pool, bankrupt,
                  is_bust, dealer_hand, hole_card_hidden, has_revealed,
                  main_pot, player_bets, state, players_remaining,
                  num_rounds, quit_game, turn, hand, bettor, shoe, made >>

\* a showdown that throws the dealer's cards on the discard pile
Showdown_discards ==
  /\ pc = "showdown"
  /\ state' = "showdown"
  /\ pc' = "payout"
  /\ discard_pile' = discard_pile + Len(dealer_hand)
  /\ UNCHANGED << shoe_ranks, deck, current_hand, money_pool, bankrupt,
                  is_bust, dealer_hand, hole_card_hidden, has_revealed,
                  main_pot, player_bets, players_remaining, num_rounds,
                  quit_game, turn, hand, bettor, shoe, made >>

\* a showdown that leaves Game.state as it finds it
Showdown_state_unset ==
  /\ pc = "showdown"
  /\ pc' = "payout"
  /\ UNCHANGED << shoe_ranks, deck, discard_pile, current_hand, money_pool,
                  bankrupt, is_bust, dealer_hand, hole_card_hidden,
                  has_revealed, main_pot, player_bets, state,
                  players_remaining, num_rounds, quit_game, turn, hand,
                  bettor, shoe, made >>

\* launch_game lines 243-246: show_round_results changes nothing
Showdown ==
  /\ pc = "showdown"
  /\ state' = "showdown"
  /\ pc' = "payout"
  /\ UNCHANGED << shoe_ranks, deck, discard_pile, current_hand, money_pool, bankrupt,
                  is_bust, dealer_hand, hole_card_hidden, has_revealed,
                  main_pot, player_bets, players_remaining, num_rounds,
                  quit_game, turn, hand, bettor, shoe, made >>

\* a payout that pays out of the pot and leaves it empty
Payout_empties_pot ==
  /\ pc = "payout"
  /\ money_pool' =
       [p \in Players |->
          IF p \in DOMAIN player_bets
            THEN money_pool[p] + winnings(determine_winner(p), player_bets[p])
            ELSE money_pool[p]]
  /\ bankrupt' =
       [p \in Players |->
          IF p \in DOMAIN player_bets
            THEN check_bankruptcy(money_pool'[p])
            ELSE bankrupt[p]]
  /\ main_pot' = 0
  /\ pc' = "round_end"
  /\ UNCHANGED << shoe_ranks, deck, discard_pile, current_hand, is_bust,
                  dealer_hand, hole_card_hidden, has_revealed, player_bets,
                  state, players_remaining, num_rounds, quit_game, turn,
                  hand, bettor, shoe, made >>

\* Game.payout_winnings: every player with a bet is credited by the result
\* and has the bankruptcy flag recomputed
Payout ==
  /\ pc = "payout"
  /\ money_pool' =
       [p \in Players |->
          IF p \in DOMAIN player_bets
            THEN money_pool[p] + winnings(determine_winner(p), player_bets[p])
            ELSE money_pool[p]]
  /\ bankrupt' =
       [p \in Players |->
          IF p \in DOMAIN player_bets
            THEN check_bankruptcy(money_pool'[p])
            ELSE bankrupt[p]]
  /\ pc' = "round_end"
  /\ UNCHANGED << shoe_ranks, deck, discard_pile, current_hand, is_bust, dealer_hand,
                  hole_card_hidden, has_revealed, main_pot, player_bets,
                  state, players_remaining, num_rounds, quit_game, turn,
                  hand, bettor, shoe, made >>

\* launch_game lines 252-254 and 264: every player is bankrupt
GameOver ==
  /\ pc = "round_end"
  /\ check_game_bust
  /\ quit_game' = TRUE
  /\ num_rounds' = num_rounds + 1
  /\ pc' = "done"
  /\ UNCHANGED << shoe_ranks, deck, discard_pile, current_hand, money_pool, bankrupt,
                  is_bust, dealer_hand, hole_card_hidden, has_revealed,
                  main_pot, player_bets, state, players_remaining, turn,
                  hand, bettor, shoe, made >>

\* launch_game lines 257-259 and 264: "Continue to next round?" answered n
StopPlaying ==
  /\ pc = "round_end"
  /\ ~check_game_bust
  /\ quit_game' = TRUE
  /\ num_rounds' = num_rounds + 1
  /\ pc' = "done"
  /\ UNCHANGED << shoe_ranks, deck, discard_pile, current_hand, money_pool, bankrupt,
                  is_bust, dealer_hand, hole_card_hidden, has_revealed,
                  main_pot, player_bets, state, players_remaining, turn,
                  hand, bettor, shoe, made >>

\* a continuation that gives every player a clean bankruptcy flag
Continue_clears_flags ==
  /\ pc = "round_end"
  /\ ~check_game_bust
  /\ pc' = "reset_players"
  /\ turn' = 1
  /\ bankrupt' = [p \in Players |-> FALSE]
  /\ UNCHANGED << shoe_ranks, deck, discard_pile, current_hand, money_pool,
                  is_bust, dealer_hand, hole_card_hidden, has_revealed,
                  main_pot, player_bets, state, players_remaining,
                  num_rounds, quit_game, hand, bettor, shoe, made >>

\* launch_game lines 257-262: "Continue to next round?" is not answered n,
\* and Game.reset_round starts
Continue ==
  /\ pc = "round_end"
  /\ ~check_game_bust
  /\ pc' = "reset_players"
  /\ turn' = 1
  /\ UNCHANGED << shoe_ranks, deck, discard_pile, current_hand, money_pool, bankrupt,
                  is_bust, dealer_hand, hole_card_hidden, has_revealed,
                  main_pot, player_bets, state, players_remaining,
                  num_rounds, quit_game, hand, bettor, shoe, made >>

\* Game.reset_round lines 1022-1027, the iteration for one player: a player
\* who is not bankrupt is given the next two cards of the shoe (fewer when
\* the shoe holds fewer; Deck.draw_card raises on an empty shoe)
ResetPlayer ==
  /\ pc = "reset_players"
  /\ IF bankrupt[turn]
       THEN /\ NextPlayer("reset_dealer")
            /\ UNCHANGED << deck, current_hand, is_bust >>
       ELSE IF deck = 0
         THEN /\ pc' = "ValueError"
              /\ is_bust' = [is_bust EXCEPT ![turn] = FALSE]
              /\ UNCHANGED << deck, current_hand, turn >>
         ELSE \E cards \in TwoCards :
                /\ is_bust' = [is_bust EXCEPT ![turn] = FALSE]
                /\ current_hand' =
                     [current_hand EXCEPT
                        ![turn] = SubSeq(cards, 1, Take(deck, 2))]
                /\ deck' = deck - Take(deck, 2)
                /\ NextPlayer("reset_dealer")
  /\ UNCHANGED << shoe_ranks, discard_pile, money_pool, bankrupt, dealer_hand,
                  hole_card_hidden, has_revealed, main_pot, player_bets,
                  state, players_remaining, num_rounds, quit_game, hand,
                  bettor, shoe, made >>

\* Game.reset_round lines 1029-1038 and launch_game line 264: a new Dealer
\* on two fresh cards (Hand.__init__ raises on fewer), the bets cleared
ResetDealer ==
  /\ pc = "reset_dealer"
  /\ IF deck < 2
       THEN /\ pc' = "ValueError"
            /\ deck' = 0
            /\ UNCHANGED << dealer_hand, hole_card_hidden, has_revealed,
                            main_pot, player_bets, state, players_remaining,
                            num_rounds, turn >>
       ELSE \E cards \in TwoCards :
              /\ deck' = deck - 2
              /\ dealer_hand' = cards
              /\ hole_card_hidden' = TRUE
              /\ has_revealed' = FALSE
              /\ main_pot' = 0
              /\ player_bets' = << >>
              /\ state' = "betting"
              /\ players_remaining' =
                   Cardinality({ p \in Players : ~bankrupt[p] })
              /\ num_rounds' = num_rounds + 1
              /\ pc' = "betting"
              /\ turn' = 1
  /\ UNCHANGED << shoe_ranks, discard_pile, current_hand, money_pool, bankrupt, is_bust,
                  quit_game, hand, bettor, shoe, made >>

Next ==
  \/ HandleBet
  \/ CheckActive
  \/ Peek
  \/ PlayerSkip
  \/ PlayerHit
  \/ PlayerStand
  \/ PlayerQuit
  \/ DealerPhase
  \/ DealerHit
  \/ DealerStand
  \/ Showdown
  \/ Payout
  \/ GameOver
  \/ StopPlaying
  \/ Continue
  \/ ResetPlayer
  \/ ResetDealer

Spec == Init /\ [][Next]_vars

\* ------------------------------------------------------------------------
\* SpecLate : the game at the start of a late round
\* ------------------------------------------------------------------------

\* the most cards left in the shoe when the late round starts
MaxShoeLeft == 3

\* The shoe is never refilled: every reset deals two cards to each player
\* who is not bankrupt and two to the dealer, every hit deals one, so that
\* after enough rounds any small number of cards is left at the start of a
\* round. The round of the model is the last one HandleBet follows; every
\* bankroll stands at max_bet, as after one lost bet of max_bet.
InitLate ==
  /\ \E table \in Tables, cutval \in CutChoices :
       /\ shoe_ranks = table.ranks
       /\ discard_pile = cutval
       /\ money_pool = [p \in 1 .. table.seats |-> max_bet]
       /\ bankrupt = [p \in 1 .. table.seats |-> FALSE]
       /\ is_bust = [p \in 1 .. table.seats |-> FALSE]
       /\ players_remaining = table.seats
  /\ deck \in 0 .. MaxShoeLeft
  /\ current_hand \in [Players -> TwoCards]
  /\ dealer_hand \in TwoCards
  /\ hole_card_hidden = TRUE
  /\ has_revealed = FALSE
  /\ main_pot = 0
  /\ player_bets = << >>
  /\ state = "betting"
  /\ num_rounds = MaxRounds - 1
  /\ quit_game = FALSE
  /\ pc = "betting"
  /\ turn = 1
  /\ HandIdle /\ BettorIdle /\ ShoeIdle /\ MadeIdle

SpecLate == InitLate /\ [][Next]_vars

\* ------------------------------------------------------------------------
\* SpecFunds : the game at the start of a round, bankrolls of every kind
\* ------------------------------------------------------------------------

\* the bankrolls a player can hold when a round starts: none (bankrupt),
\* less than the table minimum, the table minimum, the starting bankroll
PoolChoices == { 0, min_bet - 5, min_bet, StartBank }

\* The game when a round starts after rounds_played rounds: bets are any
\* amount from min_bet to max_bet, so the bankrolls of PoolChoices occur.
\* A bankrupt player keeps the is_bust flag of the round that ruined them
\* (reset_round does not touch it); every other player was reset. A table
\* with nobody left ended the game before. The shoe has dealt the hands of
\* the rounds played and of this one.
InitTable(rounds_played) ==
  /\ \E table \in Tables, cutval \in CutChoices :
       /\ shoe_ranks = table.ranks
       /\ discard_pile = cutval
       /\ deck = NumDecks * DeckCards - cutval
                  - (rounds_played + 1) * (2 * table.seats + 2)
       /\ money_pool \in [1 .. table.seats -> PoolChoices]
  /\ bankrupt = [p \in Players |-> check_bankruptcy(money_pool[p])]
  /\ \E p \in Players : ~bankrupt[p]
  /\ is_bust \in [Players -> BOOLEAN]
  /\ \A p \in Players : ~bankrupt[p] => ~is_bust[p]
  /\ players_remaining = Cardinality({ p \in Players : ~bankrupt[p] })
  /\ current_hand \in [Players -> TwoCards]
  /\ dealer_hand \in TwoCards
  /\ hole_card_hidden = TRUE
  /\ has_revealed = FALSE
  /\ main_pot = 0
  /\ player_bets = << >>
  /\ state = "betting"
  /\ num_rounds = rounds_played
  /\ quit_game = FALSE
  /\ pc = "betting"
  /\ turn = 1
  /\ HandIdle /\ BettorIdle /\ ShoeIdle /\ MadeIdle

\* the round of SpecFunds is the last one HandleBet follows
InitFunds == InitTable(MaxRounds - 1)

SpecFunds == InitFunds /\ [][Next]_vars

\* launch_game is one sequential loop: the step it stands at is taken once
\* the answer it waits for is given
SpecFair == InitFunds /\ [][Next]_vars /\ WF_vars(Next)

\* ------------------------------------------------------------------------
\* SpecCalls : reset_round and reveal_hole_card called on a Game directly
\* ------------------------------------------------------------------------

\* the calls of reset_round the model makes on one Game
MaxResets == 2

\* a Game whose round starts, no round played so far
InitCalls == InitTable(0)

\* a reset_round that pays the recorded bets back
ResetCall_refunds ==
  /\ pc \in {"betting", "check_active"}
  /\ num_rounds < MaxResets
  /\ pc' = "reset_players"
  /\ turn' = 1
  /\ money_pool' =
       [p \in Players |->
          IF p \in DOMAIN player_bets THEN money_pool[p] + player_bets[p]
          ELSE money_pool[p]]
  /\ UNCHANGED << shoe_ranks, deck, discard_pile, current_hand, bankrupt,
                  is_bust, dealer_hand, hole_card_hidden, has_revealed,
                  main_pot, player_bets, state, players_remaining,
                  num_rounds, quit_game, hand, bettor, shoe, made >>

\* Game.reset_round is called, before, between or after the bets of the
\* players and with no round played: its loop over the players starts.
\* ResetDealer ends the call and counts it in num_rounds, as launch_game
\* counts the round a reset ends.
ResetCall ==
  /\ pc \in {"betting", "check_active"}
  /\ num_rounds < MaxResets
  /\ pc' = "reset_players"
  /\ turn' = 1
  /\ UNCHANGED << shoe_ranks, deck, discard_pile, current_hand, money_pool,
                  bankrupt, is_bust, dealer_hand, hole_card_hidden,
                  has_revealed, main_pot, player_bets, state,
                  players_remaining, num_rounds, quit_game, hand, bettor,
                  shoe, made >>

\* Game.dealer.reveal_hole_card() is called, whatever the hole card shows
RevealCall ==
  /\ pc \in {"betting", "check_active"}
  /\ reveal_hole_card
  /\ UNCHANGED << shoe_ranks, deck, discard_pile, current_hand, money_pool,
                  bankrupt, is_bust, dealer_hand, main_pot, player_bets,
                  state, players_remaining, num_rounds, quit_game, pc, turn,
                  hand, bettor, shoe, made >>

NextCalls ==
  \/ HandleBet
  \/ ResetCall
  \/ ResetPlayer
  \/ ResetDealer
  \/ RevealCall

SpecCalls == InitCalls /\ [][NextCalls]_vars

\* ------------------------------------------------------------------------
\* The rules as the specification states them, for comparison with the code
\* ------------------------------------------------------------------------

\* the point value of a rank with an ace counted as 1
PointLow(r) ==
  IF r = "Ace" THEN 1
  ELSE IF r \in {"Jack", "Queen", "King"} THEN 10
  ELSE IntOf(r)

RECURSIVE HardTotal(_)
HardTotal(cards) ==
  IF cards = << >> THEN 0 ELSE PointLow(Head(cards)) + HardTotal(Tail(cards))

AceCount(cards) == Cardinality({ i \in DOMAIN cards : cards[i] = "Ace" })

SetMax(S) == CHOOSE x \in S : \A y \in S : y <= x
SetMin(S) == CHOOSE x \in S : \A y \in S : x <= y

\* the members of a Python list
Members(s) == { s[i] : i \in DOMAIN s }

\* every total reachable by counting each ace as 1 or as 11
AceAssignments(cards) ==
  { HardTotal(cards) + 10 * k : k \in 0 .. AceCount(cards) }

\* closest to 21 without busting, else the all-aces-as-1 total
OptimalTotal(cards) ==
  LET ok == { t \in AceAssignments(cards) : t <= 21 }
  IN  IF ok # {} THEN SetMax(ok) ELSE HardTotal(cards)

\* the best total read off a set of totals
BestOfTotals(S) ==
  LET ok == { t \in S : t <= 21 }
  IN  IF ok # {} THEN SetMax(ok) ELSE SetMin(S)

RuleBust(cards) == HardTotal(cards) > 21
RuleBlackjack(cards) == Len(cards) = 2 /\ OptimalTotal(cards) = 21
\* 17 is reached only by counting an ace as 11
RuleSoft17(cards) ==
  AceCount(cards) > 0 /\ HardTotal(cards) = 7
RuleHard17Plus(cards) == HardTotal(cards) \in 17 .. 21

\* the outcome of a player against the dealer, as the rules give it
RuleOutcome(p) ==
  IF is_bust[p] THEN "Bust"
  ELSE IF RuleBust(dealer_hand) THEN "Win"
  ELSE LET mine == BestOfTotals(Members(get_hand_value(current_hand[p])))
           theirs == BestOfTotals(Members(get_hand_value(dealer_hand)))
       IN  IF mine > theirs THEN "Win"
           ELSE IF mine = theirs THEN "Push"
           ELSE "Lose"

\* the result strings of Game.determine_winner
ResultName(outcome) ==
  CASE outcome = "Bust" -> "bust" [] outcome = "Win" -> "win"
    [] outcome = "Push" -> "push" [] outcome = "Lose" -> "lose"

\* the cards held by the players
RECURSIVE CardsInHands(_)
CardsInHands(n) ==
  IF n = 0 THEN 0 ELSE Len(current_hand[n]) + CardsInHands(n - 1)

\* the dealer's hand grows by a drawn card
DealerDraws ==
  /\ Len(dealer_hand') = Len(dealer_hand) + 1
  /\ SubSeq(dealer_hand', 1, Len(dealer_hand)) = dealer_hand

\* ------------------------------------------------------------------------
\* Claims checked under Spec
\* ------------------------------------------------------------------------

\* C1: card conservation: the cards of the shoe, of the discard pile and of
\* all hands of players and dealer number numDecks * 52 in every state.
C1_CardConservation ==
  pc # "none" =>
    deck + discard_pile + CardsInHands(NumPlayers) + Len(dealer_hand)
      = NumDecks * 52

\* C7: blackjack and bust are absorbing for the dealer: should_hit is false
\* on a two-card 21 and on a hand whose totals all exceed 21, and the
\* dealer draws no card from either.
C7_BlackjackBustAbsorbing ==
  [][ (pc # "none" /\ (RuleBlackjack(dealer_hand) \/ RuleBust(dealer_hand)))
        => (~should_hit(dealer_hand) /\ ~DealerDraws) ]_vars

\* C7 witness: the dealer has drawn to a bust and the round is at showdown.
C7_Witness ==
  /\ pc = "showdown"
  /\ Len(dealer_hand) > 2
  /\ RuleBust(dealer_hand)

\* C8: determine_winner gives Bust for a busted player, else Win against a
\* bust dealer, else Win, Push or Lose by comparing the best totals.
C8_DetermineOutcome ==
  \A p \in Players : determine_winner(p) = ResultName(RuleOutcome(p))

\* C8 witness: at payout a busted player with a bet faces a bust dealer.
C8_Witness ==
  /\ pc = "payout"
  /\ \E p \in DOMAIN player_bets : is_bust[p] /\ RuleBust(dealer_hand)

\* C9: payout credits 2b on Win, b on Push and 0 on Lose or Bust to every
\* player with a recorded bet b.
C9_PayoutTable ==
  [][ pc = "payout" =>
        \A p \in DOMAIN player_bets :
          money_pool'[p] - money_pool[p] =
            CASE RuleOutcome(p) = "Win" -> 2 * player_bets[p]
              [] RuleOutcome(p) = "Push" -> player_bets[p]
              [] RuleOutcome(p) \in {"Lose", "Bust"} -> 0 ]_vars

\* C9 witness: after the payout of the first round one player has won (the
\* bankroll is the start plus the bet) and, at a table of two, the other
\* has lost.
C9_Witness ==
  /\ pc = "round_end"
  /\ num_rounds = 0
  /\ \E p \in DOMAIN player_bets :
       /\ determine_winner(p) = "win"
       /\ money_pool[p] = StartBank + player_bets[p]

\* ------------------------------------------------------------------------
\* Claims checked under SpecHand
\* ------------------------------------------------------------------------

\* C2: the totals of a hand are {low} without an ace and {low, low + 10}
\* with one or more aces, low counting every ace as 1.
C2_TotalsLowAndLowPlusTen ==
  Members(get_hand_value(hand)) =
    IF AceCount(hand) = 0 THEN { HardTotal(hand) }
    ELSE { HardTotal(hand), HardTotal(hand) + 10 }

\* C3: the best total of a hand, computed for a player or for the dealer,
\* is the highest total not above 21 over all ways of counting the aces,
\* and the all-aces-as-1 total when every way busts.
C3_BestIsOptimum ==
  /\ game_get_best_hand_value(get_hand_value(hand)) = OptimalTotal(hand)
  /\ dealer_get_best_hand_value(hand) = OptimalTotal(hand)

\* C4: the best total is the largest member of the totals that is at most
\* 21 when there is one, else the smallest member; the player-side and the
\* dealer-side computations agree.
C4_BestFromTotals ==
  /\ game_get_best_hand_value(get_hand_value(hand))
       = BestOfTotals(Members(get_hand_value(hand)))
  /\ dealer_get_best_hand_value(hand)
       = BestOfTotals(Members(get_hand_value(hand)))
  /\ dealer_get_best_hand_value(hand)
       = game_get_best_hand_value(get_hand_value(hand))

\* C4 witness: a three-card hand whose totals hold a busting member and a
\* member at most 21, so the best total is not the largest member.
C4_Witness ==
  /\ Len(hand) = 3
  /\ \E t \in Members(get_hand_value(hand)) : t > 21
  /\ \E t \in Members(get_hand_value(hand)) : t <= 21
  /\ dealer_get_best_hand_value(hand) < SeqMax(get_hand_value(hand))

\* C5: a dealer hand that is neither bust nor a two-card blackjack and whose
\* best total is 16 or less is hit.
C5_HitsOn16OrLess ==
  (~RuleBust(hand) /\ ~RuleBlackjack(hand) /\ OptimalTotal(hand) <= 16)
    => should_hit(hand)

\* C6: a non-bust, non-blackjack dealer hand is hit on a soft 17 and is not
\* hit on a hard 17 or more.
C6_SoftHitHardStand ==
  (~RuleBust(hand) /\ ~RuleBlackjack(hand)) =>
    /\ RuleSoft17(hand) => should_hit(hand)
    /\ RuleHard17Plus(hand) => ~should_hit(hand)

\* ------------------------------------------------------------------------
\* Claims checked under SpecBet
\* ------------------------------------------------------------------------

\* C10: bet_to_pot on a player who is not bankrupt charges min(requested,
\* bankroll), returns it, debits exactly it, and never more than the
\* bankroll held before the bet.
C10_BetClamp ==
  bettor.pc = "bet" =>
    /\ bettor.returned =
         (IF bettor.requested <= bettor.before THEN bettor.requested
          ELSE bettor.before)
    /\ bettor.money_pool = bettor.before - bettor.returned
    /\ bettor.returned <= bettor.before

\* C10 witness: a bet above the bankroll has been placed and was cut to it.
C10_Witness ==
  /\ bettor.pc = "bet"
  /\ bettor.requested > bettor.before
  /\ bettor.returned = bettor.before
  /\ bettor.money_pool = 0

\* C11: (as stated) in every state that directly follows a debit (a bet) or
\* a credit (a payout) of the bankroll, a bankroll <= 0 implies the
\* bankrupt flag.
C11_FlagAfterDebitAndCredit ==
  bettor.pc \in {"bet", "paid"} =>
    (bettor.money_pool <= 0 => bettor.bankrupt)

\* C11: (amended) after a payout the flag is set exactly when the bankroll
\* is <= 0; after a bet the flag tells whether the bankroll was <= 0 before
\* the debit, so an all-in bettor is not flagged until the payout.
C11_FlagAfterCreditBeforeDebit ==
  /\ bettor.pc = "paid" => (bettor.bankrupt <=> bettor.money_pool <= 0)
  /\ bettor.pc = "bet" => (bettor.bankrupt <=> bettor.before <= 0)

\* C11 witness: an all-in bet was lost and the payout has flagged the player.
C11_Witness ==
  /\ bettor.pc = "paid"
  /\ bettor.returned = bettor.before
  /\ bettor.money_pool = 0
  /\ bettor.bankrupt

\* C13: the bankroll of every player is >= 0 in every state, after any
\* bets (all-in bets and requests above the bankroll included) and payouts.
C13_BankrollNonNegative ==
  /\ bettor.pc # "none" => bettor.money_pool >= 0
  /\ \A p \in Players : money_pool[p] >= 0

\* C13 witness: an all-in bet has been won and paid twice the stake.
C13_Witness ==
  /\ bettor.pc = "paid"
  /\ bettor.returned = bettor.before
  /\ bettor.money_pool = 2 * bettor.before

\* ------------------------------------------------------------------------
\* Claims checked under Spec: the round
\* ------------------------------------------------------------------------

\* the positions of launch_game within a round, from the bets to its end
RoundPositions ==
  { "betting", "check_active", "peek", "player_turn", "dealer_phase",
    "dealer_loop", "showdown", "payout", "round_end" }

\* C12: the bankrupt flag is sticky: no step of the game (bet, payout, round
\* reset) takes a player from bankrupt to not bankrupt.
C12_BankruptSticky ==
  [][ \A p \in Players : bankrupt[p] => bankrupt'[p] ]_vars

\* C12 witness: a round starts after a reset with a bankrupt player seated.
C12_Witness ==
  /\ pc = "betting"
  /\ num_rounds > 0
  /\ \E p \in Players : bankrupt[p] /\ money_pool[p] = 0

\* C14: peek rule: in a round where the dealer's first two cards total 21
\* the round never enters the player turns or the dealer turn, the peek
\* reveals the hole card and goes to the payout, no hand of a player or of
\* the dealer changes, and the payout settles every recorded bet (the stake
\* back on a 21, nothing otherwise).
C14_PeekRule ==
  [][ (pc \in RoundPositions /\ RuleBlackjack(dealer_hand)) =>
        /\ pc \notin {"player_turn", "dealer_phase", "dealer_loop"}
        /\ current_hand' = current_hand
        /\ dealer_hand' = dealer_hand
        /\ pc = "peek" => (~hole_card_hidden' /\ has_revealed'
                           /\ pc' = "payout")
        /\ pc = "payout" =>
             /\ ~hole_card_hidden
             /\ pc' = "round_end"
             /\ \A p \in DOMAIN player_bets :
                  money_pool'[p] - money_pool[p] =
                    IF ~is_bust[p] /\ OptimalTotal(current_hand[p]) = 21
                         /\ Len(current_hand[p]) = 2
                      THEN player_bets[p] ELSE 0 ]_vars

\* C14 witness: a round against a dealer blackjack has been paid out with a
\* bet on the table and the hole card shown.
C14_Witness ==
  /\ pc = "round_end"
  /\ RuleBlackjack(dealer_hand)
  /\ ~hole_card_hidden
  /\ DOMAIN player_bets # {}

\* C15: in a round in which every player who bet has busted the dealer's
\* turn is skipped: the hole card stays hidden, the hitting loop is not
\* entered and the dealer draws no card.
C15_DealerSkippedWhenAllBust ==
  [][ (pc \in {"dealer_phase", "dealer_loop"}
         /\ \A p \in DOMAIN player_bets : is_bust[p]) =>
        /\ pc' # "dealer_loop"
        /\ dealer_hand' = dealer_hand
        /\ hole_card_hidden' = hole_card_hidden ]_vars

\* the changes of Game.state the round lifecycle allows
LifecycleMoves ==
  { << "betting", "player_turn" >>, << "player_turn", "dealer_turn" >>,
    << "player_turn", "showdown" >>, << "dealer_turn", "showdown" >>,
    << "showdown", "betting" >> }

\* C16: the round state moves only along Betting -> PlayerTurn ->
\* DealerTurn -> Showdown -> Betting, DealerTurn possibly skipped, and it
\* is Betting whenever a round starts.
C16_Lifecycle ==
  [][ /\ state' # state => << state, state' >> \in LifecycleMoves
      /\ pc = "betting" => state = "betting"
      /\ pc' = "betting" => state' = "betting" ]_vars

\* C16 witness: a second round starts in Betting after a reset.
C16_Witness ==
  /\ pc = "betting"
  /\ turn = 1
  /\ num_rounds = 1
  /\ state = "betting"
  /\ player_bets = << >>

\* C17: turn order: during the player turns only the player whose turn it
\* is changes hand or bust flag, the turn passes from each player to the
\* next in list order and to the dealer after the last, the dealer's hand
\* and hole card are untouched meanwhile, and once the dealer's phase has
\* begun no player acts again in the round.
C17_TurnOrder ==
  [][ /\ pc = "player_turn" =>
           /\ \A p \in Players :
                (current_hand'[p] # current_hand[p] \/ is_bust'[p] # is_bust[p])
                  => p = turn
           /\ dealer_hand' = dealer_hand
           /\ hole_card_hidden' = hole_card_hidden
           /\ pc' = "player_turn" => turn' \in {turn, turn + 1}
           /\ pc' = "dealer_phase" => turn = NumPlayers
      /\ (pc = "peek" /\ pc' = "player_turn") => turn' = 1
      /\ pc \in {"dealer_phase", "dealer_loop", "showdown", "payout",
                 "round_end"} =>
           (current_hand' = current_hand /\ is_bust' = is_bust) ]_vars

\* C17 witness: at a table of two both players have drawn a card and the
\* dealer, in the hitting loop, has drawn one after them.
C17_Witness ==
  /\ pc = "dealer_loop"
  /\ NumPlayers = 2
  /\ \A p \in Players : Len(current_hand[p]) = 3
  /\ Len(dealer_hand) = 3

\* C18: bust is irreversible within a round: a player whose busted flag is
\* set keeps the flag and the hand in every step up to the round reset.
C18_BustIrreversible ==
  [][ \A p \in Players :
        (is_bust[p] /\ pc # "reset_players") =>
          (is_bust'[p] /\ current_hand'[p] = current_hand[p]) ]_vars

\* C18 witness: a player who bet and drew to a bust has reached the end of
\* the round with the three cards of the bust.
C18_Witness ==
  /\ pc = "round_end"
  /\ \E p \in DOMAIN player_bets :
       /\ is_bust[p]
       /\ Len(current_hand[p]) = 3
       /\ RuleBust(current_hand[p])

\* ------------------------------------------------------------------------
\* Claims checked under SpecDraw
\* ------------------------------------------------------------------------

\* the ranks of the cards a draw returned
DrawnValues == [i \in DOMAIN shoe.drawn |-> shoe.drawn[i].value]

\* C19: a draw of n cards fails when fewer than n cards remain and leaves
\* the shoe as it was; otherwise it returns exactly the n top cards in
\* order and removes them from the shoe.
C19_DrawAllOrError ==
  shoe.pc \in {"return", "ValueError"} =>
    IF Len(shoe.before) < shoe.num_cards
      THEN shoe.pc = "ValueError" /\ shoe.deck = shoe.before
      ELSE /\ shoe.pc = "return"
           /\ Len(shoe.drawn) = shoe.num_cards
           /\ DrawnValues = SubSeq(shoe.before, 1, shoe.num_cards)
           /\ shoe.deck =
                SubSeq(shoe.before, shoe.num_cards + 1, Len(shoe.before))

\* ------------------------------------------------------------------------
\* Claims checked under SpecLate
\* ------------------------------------------------------------------------

\* C20: initial deal invariant: the dealer and every player who is not
\* bankrupt hold at least two cards in every state, and exactly two when a
\* round starts (after the initial deal and after every reset).
C20_InitialDeal ==
  pc # "none" =>
    /\ Len(dealer_hand) >= 2
    /\ \A p \in Players : ~bankrupt[p] => Len(current_hand[p]) >= 2
    /\ (pc = "betting" /\ turn = 1) =>
         /\ Len(dealer_hand) = 2
         /\ \A p \in Players : ~bankrupt[p] => Len(current_hand[p]) = 2

\* C25: showdown moves no card: the steps that show the round results and
\* pay out leave the shoe, the discard pile, every player's hand and the
\* dealer's hand as they were.
C25_ShowdownMovesNoCard ==
  [][ (pc \in {"showdown", "payout"}) =>
        /\ deck' = deck
        /\ discard_pile' = discard_pile
        /\ current_hand' = current_hand
        /\ dealer_hand' = dealer_hand
    ]_vars

\* C25 witness: a round in which the dealer drew a card has been paid out
\* with a winner.
C25_Witness ==
  /\ pc = "round_end"
  /\ Len(dealer_hand) = 3
  /\ \E p \in DOMAIN player_bets :
       determine_winner(p) = "win" /\ money_pool[p] = 2 * player_bets[p]

\* ------------------------------------------------------------------------
\* Claims checked under SpecFunds
\* ------------------------------------------------------------------------

\* C21: round reset post-state: when reset_round is over every player who
\* is not bankrupt holds two cards drawn from the shoe with the busted flag
\* cleared, the dealer holds two cards drawn from the shoe with the hole
\* card hidden and nothing revealed, the bet map is empty, the pot is zero
\* and the round state is Betting.
C21_ResetPostState ==
  [][ /\ (pc = "reset_players" /\ pc' # "ValueError" /\ ~bankrupt[turn]) =>
           /\ Len(current_hand'[turn]) = 2
           /\ deck' = deck - 2
           /\ ~is_bust'[turn]
      /\ (pc = "reset_dealer" /\ pc' = "betting") =>
           /\ \A p \in Players :
                ~bankrupt'[p] => (Len(current_hand'[p]) = 2 /\ ~is_bust'[p])
           /\ Len(dealer_hand') = 2
           /\ deck' = deck - 2
           /\ hole_card_hidden' /\ ~has_revealed'
           /\ player_bets' = << >>
           /\ main_pot' = 0
           /\ state' = "betting"
    ]_vars

\* C21 witness: a reset is over at a table where one player, ruined in the
\* round, keeps the three cards of that round and another player plays on.
C21_Witness ==
  /\ pc = "betting"
  /\ num_rounds = MaxRounds
  /\ \E p \in Players : bankrupt[p] /\ Len(current_hand[p]) = 3
  /\ \E p \in Players : ~bankrupt[p] /\ Len(current_hand[p]) = 2

\* C23: a bankrupt player is left out: in every step taken while a player
\* is flagged bankrupt that player's bankroll, hand and flags stay as they
\* are and no bet is recorded for them, and the player list keeps them.
C23_BankruptExcluded ==
  [][ /\ DOMAIN money_pool' = DOMAIN money_pool
      /\ \A p \in Players :
           bankrupt[p] =>
             /\ money_pool'[p] = money_pool[p]
             /\ current_hand'[p] = current_hand[p]
             /\ is_bust'[p] = is_bust[p]
             /\ bankrupt'[p]
             /\ p \in DOMAIN player_bets' => p \in DOMAIN player_bets
    ]_vars

\* C23 witness: a round has been played and paid out around a bankrupt
\* player who is not marked busted and has no bet.
C23_Witness ==
  /\ pc = "round_end"
  /\ DOMAIN player_bets # {}
  /\ \E p \in Players :
       bankrupt[p] /\ ~is_bust[p] /\ p \notin DOMAIN player_bets

\* the betting step folds the player at turn
Folded ==
  /\ is_bust'[turn]
  /\ turn \notin DOMAIN player_bets'
  /\ money_pool' = money_pool

C22_ResetKeepsMoney ==
  [][ /\ (pc \in {"reset_players", "reset_dealer"} \/ pc' = "reset_players")
           => (money_pool' = money_pool /\ bankrupt' = bankrupt)
      /\ (pc = "reset_players" /\ pc' # "ValueError" /\ ~bankrupt[turn]) =>
           (Len(current_hand'[turn]) = 2 /\ deck' = deck - 2)
      /\ (pc = "reset_dealer" /\ pc' = "betting") =>
           /\ player_bets' = << >>
           /\ \A p \in Players : ~bankrupt[p] => Len(current_hand'[p]) = 2
    ]_vars

\* C22 witness: the resets of the model have all been made on a table of
\* two whose bankrolls are the starting bankrolls: no bet came between.
C22_Witness ==
  /\ pc = "betting"
  /\ turn = 1
  /\ num_rounds = MaxResets
  /\ NumPlayers = 2
  /\ \A p \in Players : money_pool[p] = StartBank /\ Len(current_hand[p]) = 2
  /\ player_bets = << >>

\* C26: reveal is one-time and idempotent: a call of reveal_hole_card
\* leaves the hole card revealed, a call on a revealed hole card changes no
\* state, and a revealed hole card stays revealed until the round reset
\* makes the new dealer.
C26_RevealOnce ==
  [][ /\ RevealCall => (~hole_card_hidden' /\ has_revealed')
      /\ (RevealCall /\ ~hole_card_hidden) => UNCHANGED vars
      /\ (~hole_card_hidden /\ pc # "reset_dealer") =>
           (~hole_card_hidden' /\ has_revealed')
    ]_vars

\* C26 witness: the hole card has been revealed by a call before any reset.
C26_Witness ==
  /\ pc \in {"betting", "check_active"}
  /\ num_rounds = 0
  /\ ~hole_card_hidden
  /\ has_revealed

\* ------------------------------------------------------------------------
\* Claims checked under SpecShoe
\* ------------------------------------------------------------------------

\* the copies of a card in a list of cards
Copies(card, cards) == Cardinality({ i \in DOMAIN cards : cards[i] = card })

\* C28: shoe construction: a shoe built from N decks holds, shoe and
\* discard pile together, N copies of each of the 52 cards; the discard
\* pile holds the cut, between 60 and 75 cards, and the shoe the other
\* N * 52 - cut cards.
C28_ShoeConstruction ==
  shoe.pc = "built" =>
    /\ \A s \in DOMAIN SUITS, v \in DOMAIN VALUES :
         LET card == [suit |-> SUITS[s], value |-> VALUES[v]]
         IN  Copies(card, shoe.deck) + Copies(card, shoe.discard_pile)
               = shoe.num_decks
    /\ Len(shoe.discard_pile) >= 60
    /\ Len(shoe.discard_pile) <= 75
    /\ Len(shoe.discard_pile) = shoe.cutval
    /\ Len(shoe.deck) = shoe.num_decks * 52 - shoe.cutval

\* ------------------------------------------------------------------------
\* Claims checked under SpecObj
\* ------------------------------------------------------------------------

\* the call handed over fewer than two cards, or a bankroll that is not
\* positive to Player
InvalidCall ==
  \/ Len(made.predraw) < 2
  \/ made.asked = "Player" /\ made.player_bank <= 0

\* C27: invalid construction is rejected: building a hand, a player or a
\* dealer from fewer than two cards, or a player from a bankroll of 0 or
\* less, raises an error and makes no participant; every other call makes
\* the participant asked for, holding the cards handed over.
C27_InvalidConstructionRejected ==
  made.pc = "made" =>
    /\ InvalidCall <=> made.obj.kind = "ValueError"
    /\ ~InvalidCall =>
         /\ made.obj.kind = made.asked
         /\ made.obj.current_hand = made.predraw
         /\ made.asked = "Player" =>
              made.obj.money_pool = made.player_bank

C27_Witness ==
  /\ made.pc = "made"
  /\ made.asked = "Player"
  /\ made.player_bank <= 0
  /\ Len(made.predraw) = 2
  /\ made.obj.kind = "ValueError"

\* the place of a rank in Deck.VALUES: "2" comes first, "10" ninth
Place(value) == CHOOSE i \in DOMAIN VALUES : VALUES[i] = value

\* C29: card point values: a card of rank 2 to 10 has its face value, a
\* Jack, a Queen and a King have value 10, an Ace has the dual value 1 and
\* 11, and the lookup of any other rank fails with an error and returns no
\* value.
C29_CardPointValues ==
  made.pc = "value" =>
    IF made.value \in Ranks
      THEN IF Place(made.value) <= 9
             THEN made.result = [kind |-> "int", v |-> Place(made.value) + 1]
           ELSE IF made.value \in { "Jack", "Queen", "King" }
             THEN made.result = [kind |-> "int", v |-> 10]
           ELSE /\ made.value = "Ace"
                /\ made.result = [kind |-> "list", v |-> << 1, 11 >>]
      ELSE made.result = [kind |-> "ValueError"]

C29_Witness ==
  /\ made.pc = "value"
  /\ made.value = "Joker"
  /\ made.result.kind = "ValueError"

\* the orders a list of n cards can be put in
Orders(n) ==
  { f \in [1 .. n -> 1 .. n] : \A i, j \in 1 .. n : i # j => f[i] # f[j] }

\* C30: cached totals are consistent: after construction, after add_card
\* and after the hand replacement of the round reset, the stored totals are
\* the totals computed from the cards the hand holds now, and the same
\* totals come out of the same cards in any order.
C30_CachedTotalsConsistent ==
  (made.pc \in { "made", "used" } /\ made.obj.kind # "ValueError") =>
    LET cards == made.obj.current_hand IN
    /\ made.obj.hand_value = calc_hand_value(cards)
    /\ made.obj.n_aces = n_aces(cards)
    /\ \A f \in Orders(Len(cards)) :
         calc_hand_value([i \in 1 .. Len(cards) |-> cards[f[i]]])
           = made.obj.hand_value

C30_Witness ==
  /\ made.pc = "used"
  /\ made.obj.kind = "Player"
  /\ made.obj.current_hand = << "9", "Ace", "King" >>
  /\ made.predraw = << "2", "2" >>
  /\ made.obj.hand_value = << 20, 30 >>

\* ------------------------------------------------------------------------
\* Claims checked under SpecFair
\* ------------------------------------------------------------------------

\* C31: a round runs to completion: every round in which at least one
\* player has bet goes on to the showdown and the payout, unless quit is
\* chosen at a player's action point; the players hit MaxHit cards at most
\* and the shoe is not exhausted.
C31_RoundCompletes ==
  (pc = "check_active" /\ DOMAIN player_bets # {})
    ~> \/ pc = "round_end" /\ state = "showdown"
       \/ pc = "done" /\ state = "player_turn" /\ quit_game

C31_Witness ==
  /\ pc = "round_end"
  /\ state = "showdown"
  /\ DOMAIN player_bets # {}
  /\ Len(dealer_hand) > 2
  /\ \E p \in Players : Len(current_hand[p]) > 2 /\ ~is_bust[p]

\* ------------------------------------------------------------------------
\* Claims checked under SpecFunds: the dealer's turn
\* ------------------------------------------------------------------------

\* Game.handle_dealer_turn has returned and the showdown has not begun
DealerTurnDone == pc = "showdown" /\ state = "dealer_turn"

\* C32: dealer turn postcondition: when the dealer's turn is over the
\* dealer has a blackjack (two cards making 21), is bust (every total
\* above 21), or stands on a best total between 17 and 21.
C32_DealerTurnPostcondition ==
  DealerTurnDone =>
    \/ RuleBlackjack(dealer_hand)
    \/ RuleBust(dealer_hand)
    \/ OptimalTotal(dealer_hand) \in 17 .. 21

\* ------------------------------------------------------------------------
\* Claims checked under SpecFair: the dealer's loop
\* ------------------------------------------------------------------------

\* C33: the dealer's hitting loop always ends: every card drawn in the loop
\* raises the dealer's total with the aces counted as 1, and the loop, once
\* entered, is left for the showdown with the dealer bust or should_hit
\* false.
C33_DealerLoopTerminates ==
  /\ [][ (pc = "dealer_loop" /\ deck' < deck)
           => HardTotal(dealer_hand') > HardTotal(dealer_hand)
     ]_vars
  /\ (pc = "dealer_loop")
       ~> (pc = "showdown"
            /\ (RuleBust(dealer_hand) \/ ~should_hit(dealer_hand)))

C33_Witness ==
  /\ pc = "showdown"
  /\ state = "dealer_turn"
  /\ Len(dealer_hand) = 4
  /\ RuleBust(dealer_hand)

\* ------------------------------------------------------------------------
\* Claims checked under SpecFunds: the hole card
\* ------------------------------------------------------------------------

\* C34: the dealer draws only after the reveal: in every reachable state a
\* dealer hand of more than two cards has its hole card revealed in the
\* round being played.
C34_DrawsAfterReveal ==
  Len(dealer_hand) > 2 => ~hole_card_hidden /\ has_revealed

C34_Witness ==
  /\ pc = "dealer_loop"
  /\ Len(dealer_hand) > 2
  /\ ~hole_card_hidden
  /\ has_revealed

\* ------------------------------------------------------------------------
\* Claims checked under SpecAsk
\* ------------------------------------------------------------------------

\* C35: table limits: every bet recorded for a round is at least min_bet,
\* at most max_bet, and at most the bankroll the player had before the bet.
C35_TableLimits ==
  bettor.pc = "recorded" =>
    /\ min_bet <= bettor.player_bet
    /\ bettor.player_bet <= max_bet
    /\ bettor.player_bet <= bettor.before

C35_Witness ==
  /\ bettor.pc = "recorded"
  /\ bettor.tries > 0
  /\ bettor.bet_input.v = max_bet
  /\ bettor.before = max_bet + 1
  /\ bettor.player_bet = max_bet

\* ------------------------------------------------------------------------
\* Claims checked under SpecFunds: the money of a round
\* ------------------------------------------------------------------------

\* the bet recorded for a player, 0 without one
Recorded(bets, p) == IF p \in DOMAIN bets THEN bets[p] ELSE 0

\* what the rules add to the bankroll a player had before betting b
NetOf(outcome, b) ==
  CASE outcome = "Win" -> b
    [] outcome = "Push" -> 0
    [] outcome = "Lose" -> 0 - b
    [] outcome = "Bust" -> 0 - b

\* C36: net effect of a round on the bankroll: a bet of b leaves the
\* bankroll before the bet plus b on Win, unchanged on Push, minus b on
\* Lose and Bust, once the payout is made; a bet is settled once in a
\* round, and the bankroll of a player without a recorded bet is not
\* changed by the round. The bankroll before the bet is the bankroll plus
\* the recorded bet, a sum every step but the payout and the clearing of
\* the bets keeps.
C36_NetEffect ==
  [][ \A p \in Players :
        LET before == money_pool[p] + Recorded(player_bets, p) IN
        IF pc = "payout"
          THEN /\ money_pool'[p] =
                    before + NetOf(RuleOutcome(p), Recorded(player_bets, p))
               /\ player_bets' = player_bets
        ELSE IF pc = "reset_dealer"
          THEN money_pool'[p] = money_pool[p]
        ELSE money_pool'[p] + Recorded(player_bets', p) = before
    ]_vars

C36_Witness ==
  /\ pc = "round_end"
  /\ NumPlayers = 2
  /\ 1 \in DOMAIN player_bets
  /\ 2 \notin DOMAIN player_bets
  /\ player_bets[1] = max_bet
  /\ money_pool[1] = StartBank + max_bet
  /\ money_pool[2] = min_bet

\* C37: the hole card is revealed by the showdown: in every round that
\* reaches the showdown the dealer's hole card is no longer hidden when the
\* outcomes are determined, the rounds whose dealer turn is skipped
\* included.
C37_RevealedByShowdown ==
  state = "showdown" => ~hole_card_hidden /\ has_revealed

\* C38: the game ends when nobody can bet: when the betting round leaves
\* no recorded bet (every player folded or bankrupt), the game loop ends
\* there, with no card drawn, no player turn and no payout, and nothing
\* follows its end; this holds also when a player who is not flagged
\* bankrupt has money left.
C38_EndsWhenNobodyBets ==
  /\ [][ (pc = "check_active" /\ DOMAIN player_bets = {})
           => /\ pc' = "done"
              /\ UNCHANGED << deck, discard_pile, current_hand, dealer_hand,
                              money_pool, bankrupt, hole_card_hidden,
                              main_pot, player_bets, num_rounds >>
     ]_vars
  /\ [][ pc # "done" ]_vars

C38_Witness ==
  /\ pc = "done"
  /\ state = "betting"
  /\ player_bets = << >>
  /\ \E p \in Players : money_pool[p] = min_bet - 5 /\ ~bankrupt[p]
  /\ \E p \in Players : money_pool[p] = StartBank /\ ~bankrupt[p]

\* C39: quit forfeits the stakes of the round: when quit is chosen in a
\* player's turn the game ends there, with no dealer turn, no outcome
\* determined and no payout: the bets debited in the round stay debited,
\* the round counter is not incremented, and nothing follows.
C39_QuitForfeitsStakes ==
  /\ [][ (pc = "player_turn" /\ quit_game')
           => /\ pc' = "done"
              /\ UNCHANGED << money_pool, bankrupt, player_bets, main_pot,
                              num_rounds, state, dealer_hand,
                              hole_card_hidden, has_revealed, deck >>
     ]_vars
  /\ [][ ~(quit_game /\ state = "player_turn") ]_vars

C39_Witness ==
  /\ pc = "done"
  /\ quit_game
  /\ state = "player_turn"
  /\ turn = 2
  /\ hole_card_hidden
  /\ 1 \in DOMAIN player_bets
  /\ player_bets[1] = max_bet
  /\ money_pool[1] = StartBank - max_bet
  /\ num_rounds = MaxRounds - 1

\* the sum of the values of a dict of bets
RECURSIVE SumBets(_)
SumBets(bets) ==
  IF DOMAIN bets = {} THEN 0
  ELSE LET p == CHOOSE q \in DOMAIN bets : TRUE
       IN  bets[p] + SumBets([q \in DOMAIN bets \ {p} |-> bets[q]])

\* C40: pot consistency: in every reachable state the main pot is the sum
\* of the bets recorded in the bet map; the pot is 0 and the map empty
\* right after a round reset, and the payout changes neither.
C40_PotConsistency ==
  /\ [](main_pot = SumBets(player_bets))
  /\ [][ (pc = "reset_dealer" /\ pc' = "betting")
           => main_pot' = 0 /\ player_bets' = << >> ]_vars
  /\ [][ (pc = "payout") => UNCHANGED << main_pot, player_bets >> ]_vars

C40_Witness ==
  /\ pc = "round_end"
  /\ DOMAIN player_bets = {1, 2}
  /\ main_pot = max_bet + min_bet
  /\ \E p \in Players : money_pool[p] = StartBank + max_bet

=============================================================================
